---- MODULE Spec2Model ----
(***************************************************************************)
(* Task Management API (src/main.py): the tasks table and the five CRUD    *)
(* handlers create_task, get_task, get_tasks, update_task, delete_task.    *)
(*                                                                         *)
(* Each handler is an `async def` without an await, so on the event loop a *)
(* handler runs from request validation to commit without interleaving;    *)
(* one action models one whole request, including the validation FastAPI   *)
(* performs on the path, query and body parameters before the handler body *)
(* is entered (Spec, SpecBulk).                                            *)
(*                                                                         *)
(* Several server processes over one database (DATABASE_URL) each run      *)
(* their handlers in a session of their own: between the SELECT of a       *)
(* handler's lookup and the statement of its commit, the statements of     *)
(* the other processes take place (SpecRace).                              *)
(***************************************************************************)
EXTENDS Integers, Sequences, FiniteSets, TLC

VARIABLES
    dialect,    \* engine dialect selected by DATABASE_URL
    rows,       \* the tasks table, in the order an unordered scan returns it
    issued,     \* history: every uuid a successful create generated, in order
    deleted,    \* history: every uuid a successful delete has removed
    now,        \* the value datetime.utcnow() returns
    response,   \* the last request and its outcome
    workers     \* per server process: the request it is handling and how far

vars == <<dialect, rows, issued, deleted, now, response, workers>>

----------------------------------------------------------------------------
(* Bounds of the model *)

MaxIssued == 2
MaxTime == 1
MaxSkip == 2
MaxLimit == 2
MaxBulk == 102
MaxWorkers == 2

(* Program constants *)

NameMinLen == 1
NameMaxLen == 255
DescriptionMaxLen == 1000
DefaultSkip == 0
DefaultLimit == 100

----------------------------------------------------------------------------
(* Optional values: None is JSON null / Python None *)

None == <<>>
Some(v) == <<v>>

(* Texts of the lengths the validation rules distinguish *)

S5 == "aaaaa"
S25 == S5 \o S5 \o S5 \o S5 \o S5
S125 == S25 \o S25 \o S25 \o S25 \o S25
S250 == S125 \o S125
S255 == S250 \o S5
S256 == S255 \o "a"
S1000 == S250 \o S250 \o S250 \o S250
S1001 == S1000 \o "a"

TaskStatus == {"created", "in_progress", "completed"}

Dialects == {"sqlite", "postgresql"}

(* A path segment uuid.UUID() rejects; every other path input is the text  *)
(* of a well-formed uuid.                                                  *)
NotAUuid == 0
IsUuid(raw) == raw # NotAUuid

----------------------------------------------------------------------------
(* Request validation *)

StrLenOk(v, lo, hi) == Len(v) >= lo /\ Len(v) <= hi

NameOk(n) == IF n = None THEN FALSE ELSE StrLenOk(n[1], NameMinLen, NameMaxLen)
DescriptionOk(d) == IF d = None THEN TRUE ELSE StrLenOk(d[1], 0, DescriptionMaxLen)

TaskCreateValid(name, description) == NameOk(name) /\ DescriptionOk(description)

OptNameOk(n) == IF n = None THEN TRUE ELSE StrLenOk(n[1], NameMinLen, NameMaxLen)
OptStatusOk(s) == IF s = None THEN TRUE ELSE s[1] \in TaskStatus

TaskUpdateValid_unchecked(patch) == TRUE
TaskUpdateValid(patch) ==
    /\ IF "name" \in DOMAIN patch THEN OptNameOk(patch["name"]) ELSE TRUE
    /\ IF "description" \in DOMAIN patch THEN DescriptionOk(patch["description"]) ELSE TRUE
    /\ IF "status" \in DOMAIN patch THEN OptStatusOk(patch["status"]) ELSE TRUE

----------------------------------------------------------------------------
(* The table *)

Stored == {rows[i].uuid : i \in 1..Len(rows)}

first(table, task_uuid) ==
    LET hits == SelectSeq(table, LAMBDA r : r.uuid = task_uuid)
    IN  IF hits = <<>> THEN None ELSE Some(hits[1])

(* uuid.uuid4(): a value no earlier call returned *)
uuid4_reused == Len(rows) + 1
uuid4 == Len(issued) + 1

(* TaskModel(name=task.name, description=task.description) with the column *)
(* defaults filled in at the INSERT                                        *)
TaskModel_no_description(task_uuid, name, description, t1, t2) ==
    [uuid |-> task_uuid, name |-> name, description |-> None,
     status |-> "created", created_at |-> t1, updated_at |-> t2]
TaskModel_swapped(task_uuid, name, description, t1, t2) ==
    [uuid |-> task_uuid, name |-> name, description |-> description,
     status |-> "created", created_at |-> t2, updated_at |-> t1]
TaskModel(task_uuid, name, description, t1, t2) ==
    [uuid |-> task_uuid, name |-> name, description |-> description,
     status |-> "created", created_at |-> t1, updated_at |-> t2]

InsertAt(table, p, r) == SubSeq(table, 1, p - 1) \o <<r>> \o SubSeq(table, p, Len(table))
Without_nothing(table, task_uuid) == table
Without(table, task_uuid) == SelectSeq(table, LAMBDA r : r.uuid # task_uuid)
IndexOf(table, task_uuid) == CHOOSE i \in 1..Len(table) : table[i].uuid = task_uuid

(* Where the row written by an UPDATE stands among the n rows of a scan    *)
(* without ORDER BY, when it stood at i before.  SQLite scans by rowid and *)
(* the row keeps its rowid.  PostgreSQL scans the heap, and the UPDATE     *)
(* writes a new row version behind the versions already there.  In both a  *)
(* new row is written behind the rows already there.                       *)
UpdatePosition(i, n) == IF dialect = "sqlite" THEN i ELSE n

Respond(op, task_uuid, arg, outcome, body) ==
    [op |-> op, uuid |-> task_uuid, arg |-> arg, outcome |-> outcome, body |-> body]

NoRequest == Respond("none", NotAUuid, None, "none", <<>>)

Idle == response = NoRequest

(* A server process: where it stands in its handler, the request, the      *)
(* object its session loaded and the outcome of the request                *)
Workers == 1..MaxWorkers

Worker(pc, op, task_uuid, arg, db_task, outcome) ==
    [pc |-> pc, op |-> op, uuid |-> task_uuid, arg |-> arg, db_task |-> db_task,
     outcome |-> outcome]

NoWorker == [w \in Workers |-> Worker("idle", "none", NotAUuid, None, None, "none")]

Init ==
    /\ dialect \in Dialects
    /\ rows = <<>>
    /\ issued = <<>>
    /\ deleted = {}
    /\ now = 0
    /\ response = NoRequest
    /\ workers = NoWorker

----------------------------------------------------------------------------
(* The clock advances between requests *)

Tick ==
    /\ Idle
    /\ now < MaxTime
    /\ now' = now + 1
    /\ UNCHANGED <<workers, dialect, rows, issued, deleted, response>>

(* POST /tasks/ *)

CreateRejected(name, description) ==
    /\ ~TaskCreateValid(name, description)
    /\ response' = Respond("create", NotAUuid, [name |-> name, description |-> description],
                           "ValidationError", <<>>)
    /\ UNCHANGED <<workers, dialect, rows, issued, deleted, now>>

(* created_at and updated_at are two column defaults, each its own call of *)
(* datetime.utcnow(): t2 is the second reading.                            *)
CreateStored(name, description, cap) ==
    /\ TaskCreateValid(name, description)
    /\ Len(issued) < cap
    /\ \E t2 \in {now, now + 1} :
          LET db_task == TaskModel(uuid4, name[1], description, now, t2)
          IN  /\ t2 <= MaxTime
              /\ rows' = Append(rows, db_task)
              /\ issued' = Append(issued, db_task.uuid)
              /\ now' = t2
              /\ response' = Respond("create", db_task.uuid,
                                     [name |-> name, description |-> description],
                                     "Success", <<db_task>>)
    /\ UNCHANGED <<workers, dialect, deleted>>

create_task(name, description) ==
    \/ CreateRejected(name, description)
    \/ CreateStored(name, description, MaxIssued)

(* GET /tasks/{task_uuid} *)

get_task(raw) ==
    /\ response' =
          IF ~IsUuid(raw) THEN Respond("get", raw, None, "ValidationError", <<>>)
          ELSE IF first(rows, raw) = None THEN Respond("get", raw, None, "NotFoundError", <<>>)
          ELSE Respond("get", raw, None, "Success", first(rows, raw))
    /\ UNCHANGED <<workers, dialect, rows, issued, deleted, now>>

(* GET /tasks/ *)

query_filter_none(table, status) == table
query_filter(table, status) ==
    IF status = None THEN table
    ELSE SelectSeq(table, LAMBDA r : r.status = status[1])

offset_limit_unlimited(table, skip, limit) ==
    IF skip >= Len(table) THEN <<>> ELSE SubSeq(table, skip + 1, Len(table))
offset_limit(table, skip, limit) ==
    IF skip >= Len(table) \/ limit = 0 THEN <<>>
    ELSE SubSeq(table, skip + 1, IF skip + limit < Len(table) THEN skip + limit ELSE Len(table))

get_tasks(skip, limit, status) ==
    /\ response' =
          IF ~OptStatusOk(status)
          THEN Respond("list", NotAUuid, [skip |-> skip, limit |-> limit, status |-> status],
                       "ValidationError", <<>>)
          ELSE Respond("list", NotAUuid, [skip |-> skip, limit |-> limit, status |-> status],
                       "Success", offset_limit(query_filter(rows, status), skip, limit))
    /\ UNCHANGED <<workers, dialect, rows, issued, deleted, now>>

(* PUT /tasks/{task_uuid} *)

(* task_update.dict(exclude_unset=True), the setattr loop and the          *)
(* assignment of updated_at; name and status are held as optional values   *)
(* until the flush, since the loop may set them to None                    *)
setattrs_all_fields(db_task, update_data) ==
    [f \in DOMAIN db_task |->
        IF f = "updated_at" THEN now
        ELSE IF f \in DOMAIN update_data THEN update_data[f]
        ELSE IF f \in {"name", "status"} THEN Some(db_task[f])
        ELSE IF f = "description" THEN None
        ELSE db_task[f]]
setattrs_forward_only(db_task, update_data) ==
    LET rank == [s \in TaskStatus |->
                    IF s = "created" THEN 0 ELSE IF s = "in_progress" THEN 1 ELSE 2]
    IN  [f \in DOMAIN db_task |->
            IF f = "updated_at" THEN now
            ELSE IF f = "status" /\ f \in DOMAIN update_data
                 THEN IF update_data[f] = None THEN None
                      ELSE IF rank[update_data[f][1]] < rank[db_task[f]] THEN Some(db_task[f])
                      ELSE update_data[f]
            ELSE IF f \in DOMAIN update_data THEN update_data[f]
            ELSE IF f \in {"name", "status"} THEN Some(db_task[f])
            ELSE db_task[f]]
setattrs_first_write(db_task, update_data) ==
    [f \in DOMAIN db_task |->
        IF f = "updated_at" THEN now
        ELSE IF f \in DOMAIN update_data /\ db_task.updated_at = db_task.created_at
             THEN update_data[f]
        ELSE IF f \in {"name", "status"} THEN Some(db_task[f])
        ELSE db_task[f]]
setattrs(db_task, update_data) ==
    [f \in DOMAIN db_task |->
        IF f = "updated_at" THEN now
        ELSE IF f \in DOMAIN update_data THEN update_data[f]
        ELSE IF f \in {"name", "status"} THEN Some(db_task[f])
        ELSE db_task[f]]

(* The attributes of the loaded object whose value the handler changed:    *)
(* the columns the UPDATE of the flush sets.  None: no UPDATE is emitted.  *)
Dirty(db_task, pending) ==
    {f \in DOMAIN db_task :
        pending[f] # IF f \in {"name", "status"} THEN Some(db_task[f]) ELSE db_task[f]}

(* The NOT NULL columns of TaskModel *)
NotNullOk(pending) == ~(pending.name = None) /\ ~(pending.status = None)

Flushed(pending) == [pending EXCEPT !.name = pending.name[1], !.status = pending.status[1]]

UpdateRejected_touching(raw, patch) ==
    /\ ~(IsUuid(raw) /\ TaskUpdateValid(patch))
    /\ rows' = [i \in 1..Len(rows) |->
                   IF rows[i].uuid = raw THEN [rows[i] EXCEPT !.updated_at = now] ELSE rows[i]]
    /\ response' = Respond("update", raw, patch, "ValidationError", <<>>)
    /\ UNCHANGED <<workers, dialect, issued, deleted, now>>
UpdateRejected(raw, patch) ==
    /\ ~(IsUuid(raw) /\ TaskUpdateValid(patch))
    /\ response' = Respond("update", raw, patch, "ValidationError", <<>>)
    /\ UNCHANGED <<workers, dialect, rows, issued, deleted, now>>

UpdateNotFound_unvalidated(raw, patch) ==
    /\ IsUuid(raw)
    /\ first(rows, raw) = None
    /\ response' = Respond("update", raw, patch, "NotFoundError", <<>>)
    /\ UNCHANGED <<workers, dialect, rows, issued, deleted, now>>
UpdateNotFound(raw, patch) ==
    /\ IsUuid(raw) /\ TaskUpdateValid(patch)
    /\ first(rows, raw) = None
    /\ response' = Respond("update", raw, patch, "NotFoundError", <<>>)
    /\ UNCHANGED <<workers, dialect, rows, issued, deleted, now>>

UpdateCommitFails(raw, patch) ==
    /\ IsUuid(raw) /\ TaskUpdateValid(patch)
    /\ first(rows, raw) # None
    /\ ~NotNullOk(setattrs(first(rows, raw)[1], patch))
    /\ response' = Respond("update", raw, patch, "IntegrityError", <<>>)
    /\ UNCHANGED <<workers, dialect, rows, issued, deleted, now>>

UpdateStored(raw, patch) ==
    /\ IsUuid(raw) /\ TaskUpdateValid(patch)
    /\ first(rows, raw) # None
    /\ NotNullOk(setattrs(first(rows, raw)[1], patch))
    /\ LET db_task == Flushed(setattrs(first(rows, raw)[1], patch))
       IN  /\ rows' = InsertAt(Without(rows, raw),
                               IF Dirty(first(rows, raw)[1], setattrs(first(rows, raw)[1], patch)) = {}
                               THEN IndexOf(rows, raw)
                               ELSE UpdatePosition(IndexOf(rows, raw), Len(rows)), db_task)
           /\ response' = Respond("update", raw, patch, "Success", <<db_task>>)
    /\ UNCHANGED <<workers, dialect, issued, deleted, now>>

update_task(raw, patch) ==
    \/ UpdateRejected(raw, patch)
    \/ UpdateNotFound(raw, patch)
    \/ UpdateCommitFails(raw, patch)
    \/ UpdateStored(raw, patch)

(* DELETE /tasks/{task_uuid} *)

DeleteFailed(raw) ==
    /\ ~(IsUuid(raw) /\ first(rows, raw) # None)
    /\ response' = Respond("delete", raw, None,
                           IF ~IsUuid(raw) THEN "ValidationError" ELSE "NotFoundError", <<>>)
    /\ UNCHANGED <<workers, dialect, rows, issued, deleted, now>>

DeleteStored(raw) ==
    /\ IsUuid(raw)
    /\ first(rows, raw) # None
    /\ rows' = Without(rows, raw)
    /\ deleted' = deleted \cup {raw}
    /\ response' = Respond("delete", raw, None, "Success", <<>>)
    /\ UNCHANGED <<workers, dialect, issued, now>>

delete_task(raw) ==
    \/ DeleteFailed(raw)
    \/ DeleteStored(raw)

(* The response leaves; the next request is taken up after it *)

Deliver ==
    /\ ~Idle
    /\ response' = NoRequest
    /\ UNCHANGED <<workers, dialect, rows, issued, deleted, now>>

----------------------------------------------------------------------------
(* Requests *)

Sent(S) == {<<>>} \cup {<<v>> : v \in S}

NameInputs == {None, Some(""), Some("a"), Some(S255), Some(S256)}
DescriptionInputs == {None, Some(S1000), Some(S1001)}
StatusInputs == {None, Some("archived")} \cup {Some(s) : s \in TaskStatus}
UuidInputs == {NotAUuid} \cup (1..MaxIssued)

MkPatch(n, d, s) ==
    [f \in {g \in {"name", "description", "status"} :
               \/ g = "name" /\ n # <<>>
               \/ g = "description" /\ d # <<>>
               \/ g = "status" /\ s # <<>>} |->
        IF f = "name" THEN n[1] ELSE IF f = "description" THEN d[1] ELSE s[1]]

(* Every patch of at most two fields, and every three-field patch that     *)
(* passes validation                                                       *)
Patches ==
    {p \in {MkPatch(n, d, s) : n \in Sent(NameInputs \ {Some("a")}),
                                 d \in Sent(DescriptionInputs),
                                 s \in Sent(StatusInputs)} :
        Cardinality(DOMAIN p) <= 2 \/ TaskUpdateValid(p)}

Create == Idle /\ \E name \in NameInputs, description \in DescriptionInputs :
                      create_task(name, description)
Get == Idle /\ \E raw \in UuidInputs : get_task(raw)
List == Idle /\ \E skip \in 0..MaxSkip, limit \in (0..MaxLimit) \cup {DefaultLimit},
                    status \in StatusInputs : get_tasks(skip, limit, status)
Update == Idle /\ \E raw \in UuidInputs, patch \in Patches : update_task(raw, patch)
Delete == Idle /\ \E raw \in UuidInputs : delete_task(raw)

Next == Tick \/ Create \/ Get \/ List \/ Update \/ Delete \/ Deliver

Spec == Init /\ [][Next]_vars

(* A table larger than the default page: one dialect, the clock at rest,   *)
(* one valid create request, status updates of the first two tasks, and    *)
(* the list request with the default skip and limit                        *)

BulkInit ==
    /\ dialect = "sqlite"
    /\ rows = <<>>
    /\ issued = <<>>
    /\ deleted = {}
    /\ now = MaxTime
    /\ response = NoRequest
    /\ workers = NoWorker

BulkCreate == Idle /\ CreateStored(Some("a"), None, MaxBulk)
BulkUpdate == Idle /\ \E raw \in 1..2, s \in TaskStatus :
                         UpdateStored(raw, MkPatch(<<>>, <<>>, <<Some(s)>>))
BulkList == Idle /\ \E status \in StatusInputs : get_tasks(DefaultSkip, DefaultLimit, status)

BulkNext == BulkCreate \/ BulkUpdate \/ BulkList \/ Deliver

SpecBulk == BulkInit /\ [][BulkNext]_vars

----------------------------------------------------------------------------
(* Several server processes over one database.  Each process is followed   *)
(* through one update or delete request: first the validation and the      *)
(* SELECT of the lookup, later the flush and commit of its session.        *)

RacePatches ==
    { MkPatch(<<Some(S255)>>, <<>>, <<Some("created")>>),
      MkPatch(<<Some("a")>>, <<>>, <<Some("completed")>>),
      MkPatch(<<>>, <<Some(S1000)>>, <<>>),
      MkPatch(<<>>, <<>>, <<>>),
      MkPatch(<<None>>, <<>>, <<>>),
      MkPatch(<<>>, <<>>, <<Some("archived")>>) }

(* Path and body validation, then                                          *)
(* db.query(TaskModel).filter(TaskModel.uuid == task_uuid).first()         *)
Lookup(w, op, raw, patch) ==
    /\ workers[w].pc = "idle"
    /\ workers' = [workers EXCEPT ![w] =
          IF ~IsUuid(raw) THEN Worker("done", op, raw, patch, None, "ValidationError")
          ELSE IF ~TaskUpdateValid(patch)
               THEN Worker("done", op, raw, patch, None, "ValidationError")
          ELSE IF first(rows, raw) = None
               THEN Worker("done", op, raw, patch, None, "NotFoundError")
          ELSE Worker("loaded", op, raw, patch, first(rows, raw), "none")]
    /\ UNCHANGED <<dialect, rows, issued, deleted, now, response>>

(* The row an UPDATE of the dirty columns leaves where it finds cur *)
Updated(cur, pending, dirty) ==
    [f \in DOMAIN cur |-> IF f \in dirty THEN Flushed(pending)[f] ELSE cur[f]]

(* update_task from the setattr loop on.  The flush emits                  *)
(* UPDATE tasks SET <dirty columns> WHERE uuid = <loaded uuid> and expects *)
(* it to match one row (StaleDataError if not); with no dirty column there *)
(* is no UPDATE, and db.refresh fails if the row is gone.                  *)
UpdateCommit(w) ==
    LET me == workers[w]
        pending == setattrs(me.db_task[1], me.arg)
        dirty == Dirty(me.db_task[1], pending)
        found == first(rows, me.uuid)
        outcome == IF found = None
                   THEN IF dirty = {} THEN "InvalidRequestError" ELSE "StaleDataError"
                   ELSE IF NotNullOk(pending) THEN "Success" ELSE "IntegrityError"
    IN  /\ me.pc = "loaded"
        /\ me.op = "update"
        /\ rows' = IF outcome = "Success" /\ dirty # {}
                   THEN InsertAt(Without(rows, me.uuid),
                                 UpdatePosition(IndexOf(rows, me.uuid), Len(rows)),
                                 Updated(found[1], pending, dirty))
                   ELSE rows
        /\ workers' = [workers EXCEPT ![w] =
                          Worker("done", me.op, me.uuid, me.arg, me.db_task, outcome)]
        /\ UNCHANGED <<dialect, issued, deleted, now, response>>

(* delete_task from db.delete on.  The flush emits                         *)
(* DELETE FROM tasks WHERE uuid = <loaded uuid>; matching no row only      *)
(* warns.                                                                  *)
DeleteCommit(w) ==
    LET me == workers[w]
    IN  /\ me.pc = "loaded"
        /\ me.op = "delete"
        /\ rows' = Without(rows, me.uuid)
        /\ deleted' = IF first(rows, me.uuid) = None THEN deleted ELSE deleted \cup {me.uuid}
        /\ workers' = [workers EXCEPT ![w] =
                          Worker("done", me.op, me.uuid, me.arg, me.db_task, "Success")]
        /\ UNCHANGED <<dialect, issued, now, response>>

RaceCreate == Idle /\ CreateStored(Some("a"), None, MaxIssued)
RaceUpdate == \E w \in Workers, raw \in UuidInputs, patch \in RacePatches :
                  Lookup(w, "update", raw, patch)
RaceDelete == \E w \in Workers, raw \in UuidInputs : Lookup(w, "delete", raw, None)
RaceCommit == \E w \in Workers : UpdateCommit(w) \/ DeleteCommit(w)

RaceNext == Tick \/ RaceCreate \/ Deliver \/ RaceUpdate \/ RaceDelete \/ RaceCommit

SpecRace == Init /\ [][RaceNext]_vars

----------------------------------------------------------------------------
(* Properties *)

Succeeded(r, op) == r.op = op /\ r.outcome = "Success"

(* The stored tasks in the order their creates succeeded *)
InsertionOrdered ==
    LET ids == SelectSeq(issued, LAMBDA u : u \in Stored)
    IN  [i \in 1..Len(ids) |-> first(rows, ids[i])[1]]

(* Records k+1 .. k+n of a sequence, cut off at its end *)
Page(seq, k, n) ==
    LET rest == IF Len(seq) > k THEN Len(seq) - k ELSE 0
    IN  [i \in 1..(IF n < rest THEN n ELSE rest) |-> seq[k + i]]

(* A patch with an empty or over-long name, an over-long description or an *)
(* unknown status                                                          *)
PatchOffends(patch) ==
    \/ /\ "name" \in DOMAIN patch
       /\ patch["name"] # None
       /\ ~(Len(patch["name"][1]) \in 1..255)
    \/ /\ "description" \in DOMAIN patch
       /\ patch["description"] # None
       /\ Len(patch["description"][1]) > 1000
    \/ /\ "status" \in DOMAIN patch
       /\ patch["status"] # None
       /\ patch["status"][1] \notin {"created", "in_progress", "completed"}

(* A patch with a name that is no text of 1 to 255 characters, a           *)
(* description of more than 1000 characters or a status outside the three  *)
(* values; a field sent as null is present                                 *)
PatchViolatesCreateRules(patch) ==
    \/ PatchOffends(patch)
    \/ "name" \in DOMAIN patch /\ patch["name"] = None
    \/ "status" \in DOMAIN patch /\ patch["status"] = None

(* C1: round trip.  What a successful create stores under the id it        *)
(* returns has that id, the name and the description of the request        *)
(* (absent if none was given) and status created; every step that is not   *)
(* an update or a delete of an id leaves the task stored under it as it    *)
(* was; and a successful get returns the task stored under the id.         *)
RoundTrip ==
    [][/\ Succeeded(response', "create") =>
            LET got == first(rows', response'.uuid)
            IN  /\ got # None
                /\ response'.body = got
                /\ got[1].uuid = response'.uuid
                /\ Some(got[1].name) = response'.arg.name
                /\ got[1].description = response'.arg.description
                /\ got[1].status = "created"
       /\ \A u \in Stored :
            ~(response'.op \in {"update", "delete"} /\ response'.uuid = u)
               => first(rows', u) = first(rows, u)
       /\ Succeeded(response', "get") =>
            /\ response'.body = first(rows, response'.uuid)
            /\ response'.body[1].uuid = response'.uuid
      ]_vars

(* A get succeeds on a task still as created, description given, while     *)
(* another stored task has been updated since.                             *)
RoundTripWitness ==
    /\ Succeeded(response, "get")
    /\ response.body[1].status = "created"
    /\ response.body[1].description # None
    /\ \E i \in 1..Len(rows) : rows[i].uuid # response.uuid /\ rows[i].status # "created"

PartialUpdateFrame ==
    [][Succeeded(response', "update") =>
          LET old == first(rows, response'.uuid)[1]
              new == first(rows', response'.uuid)[1]
          IN  /\ first(rows', response'.uuid) # None
              /\ response'.body = <<new>>
              /\ new.uuid = old.uuid
              /\ new.created_at = old.created_at
              /\ \A f \in {"name", "description", "status"} \ DOMAIN response'.arg :
                    new[f] = old[f]
              /\ Len(rows') = Len(rows)
              /\ \A u \in Stored \ {response'.uuid} : first(rows', u) = first(rows, u)
      ]_vars

(* An update whose patch holds the name only has succeeded on a task with  *)
(* a description and a status other than created, another task stored.     *)
PartialUpdateFrameWitness ==
    /\ Succeeded(response, "update")
    /\ DOMAIN response.arg = {"name"}
    /\ response.body[1].description # None
    /\ response.body[1].status # "created"
    /\ Len(rows) = 2

(* C4: pagination.  A successful list(skip, limit, status) returns the     *)
(* records skip+1 .. skip+limit of the stored tasks in insertion order,    *)
(* restricted to the status when one is given, cut off at the end.         *)
PaginationInsertionOrder ==
    Succeeded(response, "list") =>
        response.body = Page(query_filter(InsertionOrdered, response.arg.status),
                             response.arg.skip, response.arg.limit)

(* C5: filter soundness.  Every record a list with a status filter returns *)
(* has that status.                                                        *)
FilterSound ==
    (Succeeded(response, "list") /\ response.arg.status # None) =>
        \A i \in 1..Len(response.body) : response.body[i].status = response.arg.status[1]

(* A filtered list has returned a task while a task of another status is   *)
(* stored.                                                                 *)
FilterSoundWitness ==
    /\ Succeeded(response, "list")
    /\ response.arg.status # None
    /\ response.body # <<>>
    /\ \E i \in 1..Len(rows) : Some(rows[i].status) # response.arg.status

(* The number of stored tasks of a status *)
StoredWith(status) == Cardinality({i \in 1..Len(rows) : rows[i].status = status})

DefaultList(r) == r.arg.skip = DefaultSkip /\ r.arg.limit = DefaultLimit

(* C6 as stated: filter completeness.  A list with a status filter and the *)
(* default skip and limit returns as many records as there are stored      *)
(* tasks of that status, however many are stored.                          *)
FilterCountAnySize ==
    (Succeeded(response, "list") /\ response.arg.status # None /\ DefaultList(response)) =>
        Len(response.body) = StoredWith(response.arg.status[1])

(* C6 as amended: a list with a status filter and the default skip and     *)
(* limit returns as many records as there are stored tasks of that status  *)
(* when these are at most the default limit of 100, and 100 records when   *)
(* there are more.                                                         *)
FilterCount ==
    (Succeeded(response, "list") /\ response.arg.status # None /\ DefaultList(response)) =>
        Len(response.body) =
            IF StoredWith(response.arg.status[1]) <= DefaultLimit
            THEN StoredWith(response.arg.status[1]) ELSE DefaultLimit

(* A default list filtered by a status has answered while more tasks of    *)
(* that status than the default limit are stored, and others of other      *)
(* statuses.                                                               *)
FilterCountWitness ==
    /\ Succeeded(response, "list")
    /\ response.arg.status # None
    /\ DefaultList(response)
    /\ StoredWith(response.arg.status[1]) > DefaultLimit
    /\ StoredWith(response.arg.status[1]) < Len(rows)

(* C7: identifier uniqueness.  No two successful creates generated the     *)
(* same id, deleted tasks included; no two stored tasks share an id; a     *)
(* successful create returns the id it generated.                          *)
IdentifierUnique ==
    /\ \A i, j \in 1..Len(issued) : i # j => issued[i] # issued[j]
    /\ \A i, j \in 1..Len(rows) : i # j => rows[i].uuid # rows[j].uuid
    /\ Stored \subseteq {issued[i] : i \in 1..Len(issued)}
    /\ Succeeded(response, "create") =>
          /\ response.uuid = issued[Len(issued)]
          /\ response.body[1].uuid = response.uuid

(* A create has succeeded after an earlier task was deleted.               *)
IdentifierUniqueWitness ==
    /\ Succeeded(response, "create")
    /\ deleted # {}
    /\ Len(issued) >= 2

UpdateOfMissing(r, table) == r.op = "update" /\ IsUuid(r.uuid) /\ first(table, r.uuid) = None

FailedRequestFrame ==
    [][response'.outcome \in {"ValidationError", "NotFoundError"} => rows' = rows]_vars

(* An update of a stored task has been rejected with ValidationError.      *)
FailedRequestFrameWitness ==
    /\ response.op = "update"
    /\ response.outcome = "ValidationError"
    /\ response.uuid \in Stored
    /\ now > 0

(* C10: an update of a stored task whose patch violates the rules of       *)
(* create is rejected with ValidationError and applies no field.           *)
PatchValidatedAsCreate ==
    [][(/\ response'.op = "update"
        /\ IsUuid(response'.uuid)
        /\ first(rows, response'.uuid) # None
        /\ PatchViolatesCreateRules(response'.arg))
          => (response'.outcome = "ValidationError" /\ rows' = rows)]_vars

(* C11: creation timestamps.  The record a successful create returns and   *)
(* stores has created_at equal to updated_at.                              *)
CreatedAtEqualsUpdatedAt ==
    Succeeded(response, "create") =>
        /\ response.body[1].created_at = response.body[1].updated_at
        /\ first(rows, response.uuid)[1].created_at = first(rows, response.uuid)[1].updated_at

(* C12: a successful update leaves the task with an updated_at strictly    *)
(* greater than the one it had.                                            *)
UpdatedAtStrictlyIncreases ==
    [][Succeeded(response', "update") =>
          /\ first(rows', response'.uuid)[1].updated_at > first(rows, response'.uuid)[1].updated_at
          /\ response'.body[1].updated_at > first(rows, response'.uuid)[1].updated_at]_vars

(* C13: every stored task has updated_at >= created_at.                    *)
UpdatedNotBeforeCreated ==
    \A i \in 1..Len(rows) : rows[i].updated_at >= rows[i].created_at

(* An update has succeeded on a task created at an earlier reading of the  *)
(* clock, and a task whose two creation timestamps differ is stored.       *)
UpdatedNotBeforeCreatedWitness ==
    /\ Succeeded(response, "update")
    /\ response.body[1].updated_at > response.body[1].created_at
    /\ \E i \in 1..Len(rows) :
          rows[i].uuid # response.uuid /\ rows[i].updated_at > rows[i].created_at

StatusOnlyUpdate(r, table) ==
    /\ r.op = "update"
    /\ IsUuid(r.uuid)
    /\ first(table, r.uuid) # None
    /\ DOMAIN r.arg = {"status"}
    /\ r.arg["status"] # None
    /\ r.arg["status"][1] \in {"created", "in_progress", "completed"}

(* C14: the status graph is complete.  An update of a stored task whose    *)
(* patch holds one of the three statuses and nothing else succeeds,        *)
(* whatever the status of the task, and leaves the task with that status.  *)
StatusGraphComplete ==
    [][StatusOnlyUpdate(response', rows) =>
          /\ Succeeded(response', "update")
          /\ first(rows', response'.uuid) # None
          /\ first(rows', response'.uuid)[1].status = response'.arg["status"][1]
          /\ response'.body[1].status = response'.arg["status"][1]]_vars

(* A task that has been updated before is set to status created.           *)
StatusGraphCompleteWitness ==
    /\ StatusOnlyUpdate(response, rows)
    /\ Succeeded(response, "update")
    /\ response.arg["status"] = Some("created")
    /\ now > response.body[1].created_at

(* C15: every stored task has one of the three statuses, a name of 1 to    *)
(* 255 characters and a description that is absent or of at most 1000      *)
(* characters.                                                             *)
StoredTasksValid ==
    \A i \in 1..Len(rows) :
        /\ rows[i].status \in {"created", "in_progress", "completed"}
        /\ Len(rows[i].name) >= 1
        /\ Len(rows[i].name) <= 255
        /\ IF rows[i].description = None THEN TRUE ELSE Len(rows[i].description[1]) <= 1000

(* An update with a patch that violates the rules has been refused on a    *)
(* stored task whose name and description are of the greatest length.      *)
StoredTasksValidWitness ==
    /\ response.op = "update"
    /\ response.outcome \in {"ValidationError", "IntegrityError"}
    /\ response.uuid \in Stored
    /\ Len(first(rows, response.uuid)[1].name) = 255
    /\ first(rows, response.uuid)[1].description # None
    /\ Len(first(rows, response.uuid)[1].description[1]) = 1000

ValidUpdateOfStored(r, table) ==
    /\ r.op = "update"
    /\ IsUuid(r.uuid)
    /\ first(table, r.uuid) # None
    /\ ~PatchViolatesCreateRules(r.arg)

(* What a patch field holds, as the task stores it *)
PatchValue(patch, f) == IF f = "description" THEN patch[f] ELSE patch[f][1]

(* C16: sequential last-write-wins.  Every update of a stored task with a  *)
(* valid patch, issued after the one before it has been answered,          *)
(* succeeds and leaves each of name, description and status with the       *)
(* value of the patch if the patch holds the field and with the value it   *)
(* had if not; no step other than an update or a delete of the task        *)
(* changes it, and a get returns the task as stored.  So each field is     *)
(* that of the latest patch that held it, or the created one.              *)
SequentialLastWriteWins ==
    [][/\ ValidUpdateOfStored(response', rows) =>
            LET old == first(rows, response'.uuid)[1]
                new == first(rows', response'.uuid)[1]
            IN  /\ Succeeded(response', "update")
                /\ first(rows', response'.uuid) # None
                /\ \A f \in {"name", "description", "status"} :
                      new[f] = IF f \in DOMAIN response'.arg
                               THEN PatchValue(response'.arg, f) ELSE old[f]
       /\ \A u \in Stored :
            ~(response'.op \in {"update", "delete"} /\ response'.uuid = u)
               => first(rows', u) = first(rows, u)
       /\ Succeeded(response', "get") => response'.body = first(rows', response'.uuid)
      ]_vars

(* A get returns a task that updates have given another name, description  *)
(* and status at a later reading of the clock than its creation.           *)
SequentialLastWriteWinsWitness ==
    /\ Succeeded(response, "get")
    /\ response.body[1].status = "completed"
    /\ response.body[1].name = S255
    /\ response.body[1].description = None
    /\ response.body[1].updated_at > response.body[1].created_at
    /\ \E i \in 1..Len(rows) : rows[i].uuid # response.uuid

(* The name, description and status of a task *)
TaskFields(r) == [name |-> r.name, description |-> r.description, status |-> r.status]

(* What a patch makes of the fields *)
Applied(fields, patch) ==
    [f \in DOMAIN fields |-> IF f \in DOMAIN patch THEN PatchValue(patch, f) ELSE fields[f]]

(* Processes w and v have both found the same task and finished their      *)
(* requests on it, and no other process has taken up a request             *)
Raced(w, opw, v, opv) ==
    /\ w # v
    /\ workers[w].op = opw /\ workers[v].op = opv
    /\ workers[w].pc = "done" /\ workers[v].pc = "done"
    /\ workers[w].uuid = workers[v].uuid
    /\ workers[w].db_task # None /\ workers[v].db_task # None
    /\ \A x \in Workers \ {w, v} : workers[x].pc = "idle"

(* C17: racing updates are serialized without merge.  When two processes   *)
(* have each found the same task and finished an update of it with a valid *)
(* patch, both have succeeded and the stored name, description and status  *)
(* are those of applying the two patches one after the other, in one of    *)
(* the two orders, to the task the first of them found.                    *)
RacingUpdatesSerialized ==
    \A w, v \in Workers :
        (/\ Raced(w, "update", v, "update")
         /\ ~PatchViolatesCreateRules(workers[w].arg)
         /\ ~PatchViolatesCreateRules(workers[v].arg))
        => /\ workers[w].outcome = "Success"
           /\ workers[v].outcome = "Success"
           /\ first(rows, workers[w].uuid) # None
           /\ TaskFields(first(rows, workers[w].uuid)[1]) \in
                 { Applied(Applied(TaskFields(workers[w].db_task[1]), workers[w].arg),
                           workers[v].arg),
                   Applied(Applied(TaskFields(workers[v].db_task[1]), workers[v].arg),
                           workers[w].arg) }

(* C18: racing update and delete end in specified outcomes.  When one      *)
(* process has found a task and finished an update of it with a valid      *)
(* patch and another has found the same task and finished a delete of it,  *)
(* the update has ended with the updated record or NotFoundError, the      *)
(* delete with success or NotFoundError, and after a successful delete the *)
(* task is not stored.                                                     *)
RacingUpdateDeleteSpecified ==
    \A w, v \in Workers :
        (/\ Raced(w, "update", v, "delete")
         /\ ~PatchViolatesCreateRules(workers[w].arg))
        => /\ workers[w].outcome \in {"Success", "NotFoundError"}
           /\ workers[v].outcome \in {"Success", "NotFoundError"}
           /\ workers[v].outcome = "Success" => first(rows, workers[w].uuid) = None

====
